---- MODULE Spec2Model ----
(***************************************************************************)
(* tmux-mcp: the cancellable periodic command sequencer, as implemented by *)
(* the MCP tool server (asyncio tasks, tmux_mcp_server.py), the threaded   *)
(* GUI (worker threads, tmux_messenger.py) and the UV GUI (pyuv timers,    *)
(* tmux_messenger_uv.py).                                                  *)
(*                                                                         *)
(* A tmux command is "issued" when its process is spawned; the command is  *)
(* appended to the trace of the invocation that spawned it.  Time is not   *)
(* measured: the end of an interval wait is an event, and each invocation  *)
(* records whether it is the schedule's first and whether an interval wait *)
(* preceded it.  A finished task keeps only how it ended.                  *)
(***************************************************************************)
EXTENDS Integers, Sequences, FiniteSets, Bags, TLC

\* ------------------------------------------------------------------ bounds

\* Schedules (asyncio tasks, periodic pyuv timers) one run creates.
MaxTasks == 2
\* Worker threads of the threaded GUI alive at once.
MaxThreads == 1
\* Tool calls in flight at once in the concurrent specification.
MaxCalls == 2

\* Sequence invocations one run of the UV GUI follows.
MaxSeqs == 2
\* tmux processes of the UV GUI followed to their exit at once.
MaxProcs == 3
\* Largest `count` given to send_ctrl_c.
MaxCount == 2
\* Sessions the tmux server has during a broadcast.
MaxSessions == 2
\* Characters in the output of `tmux list-sessions`.
MaxOutput == 4

\* ------------------------------------------------------------------- state

VARIABLES
    program,         \* which of the repository's programs this run is of
    \* tmux_mcp_server.py
    active_timers,   \* session -> task id, 0 when the session has no entry
    active_cycles,   \* session -> task id, 0 when the session has no entry
    tasks,           \* the asyncio tasks created so far, by id
    calls,           \* bag of tool calls suspended at an await
    stop_result,     \* what the last stop tool returned, until the next start
    \* tmux_messenger.py
    gui,             \* the TmuxMessenger object: flags, thread handles, buttons
    threads,         \* the worker threads started so far, by id
    \* tmux_messenger_uv.py
    uv,              \* the TmuxMessengerUV object: timer handles, flag, buttons
    uv_timers,       \* the periodic pyuv timers created so far, by id
    uv_seqs,         \* the exit/continue sequence invocations started so far
    uv_procs,        \* the tmux processes spawned by the UV GUI and still running
    \* tmux_mcp_server.py and tmux_mcp_agent_channels.py
    request,         \* the call of a one-shot tool in progress, or the last one
    \* tmux_mcp_agent_channels.py
    tmux_sessions,   \* the session names `tmux list-sessions` prints, in its order
    broadcast,       \* the call of broadcast_to_channel in progress, or the last one
    \* tmux_mcp_server.py
    listing          \* the call of list_tmux_sessions or of the tmux://sessions
                     \* resource in progress, or the last one

mcp_vars == <<active_timers, active_cycles, tasks, calls, stop_result>>

gui_vars == <<gui, threads>>

uv_vars == <<uv, uv_timers, uv_seqs, uv_procs>>

channel_vars == <<tmux_sessions, broadcast>>

vars == <<program, mcp_vars, gui_vars, uv_vars, request, channel_vars, listing>>

\* A step of one program leaves the other programs' state alone.
mcp_only == UNCHANGED <<program, gui_vars, uv_vars, request, channel_vars, listing>>

gui_only == UNCHANGED <<program, mcp_vars, uv_vars, request, channel_vars, listing>>

uv_only == UNCHANGED <<program, mcp_vars, gui_vars, request, channel_vars, listing>>

request_only == UNCHANGED <<program, mcp_vars, gui_vars, uv_vars, channel_vars, listing>>

broadcast_only == UNCHANGED <<program, mcp_vars, gui_vars, uv_vars, request, tmux_sessions, listing>>

listing_only == UNCHANGED <<program, mcp_vars, gui_vars, uv_vars, request, channel_vars>>

Sessions == {"s1", "s2"}

NoTask == 0

Kinds == {"timer", "cycle"}

\* The nine commands of the exit/continue sequence, as the code issues them.
ExitContinueTrace ==
    <<"C-c", "C-c", "C-c", "C-c", "C-c",
      "mullvad reconnect", "Enter", "claudex -c", "Enter">>

\* Exit statuses of a tmux process: 0, or non-zero.
ExitCodes == {0, 1}

\* The environment of one specification: the sessions the host names, the
\* exit statuses tmux returns, and whether launching tmux can raise.
Env(sessions, codes, raising, intervals) ==
    [sessions |-> sessions, codes |-> codes, raising |-> raising,
     intervals |-> intervals, results |-> FALSE, cycling |-> sessions]

\* The same environment, with the host keeping what a stop tool returns.
Observed(env) == [env EXCEPT !.results = TRUE]

\* The same environment, with a host that starts auto-cycles only on `sessions`.
Cycling(env, sessions) == [env EXCEPT !.cycling = sessions]

\* A task is over when its coroutine has returned or was cancelled unrun.
Finished(t) == t.pc \in {"done", "cancelled"}

\* asyncio.create_task(loop()): the coroutine has not run yet.
create_task(kind, session, delay) ==
    [kind |-> kind, session |-> session, pc |-> "new", i |-> 0,
     must_cancel |-> FALSE, invocation |-> "none", waited |-> FALSE,
     preceded |-> FALSE, trace |-> <<>>, failed |-> FALSE, complete |-> FALSE,
     crashed |-> FALSE, delay |-> delay, found_first |-> FALSE,
     interval |-> 5]

\* The coroutine is over: by `break` ("done") or cancelled before its loop.
finish(t, pc, crashed) ==
    [create_task(t.kind, t.session, FALSE) EXCEPT !.pc = pc, !.crashed = crashed]

\* A cancel() that takes no effect on a coroutine that has not begun its loop.
cancel_started_only(t) ==
    IF Finished(t) \/ t.pc \in {"new", "delay"} THEN t
    ELSE [finish(t, t.pc, FALSE) EXCEPT !.must_cancel = TRUE]

\* Task.cancel(): a no-op on a finished task, else CancelledError is thrown
\* into the coroutine at its next step, at the await where it stands; the
\* invocation it was in is abandoned.
cancel(t) ==
    IF Finished(t) THEN t
    ELSE [finish(t, t.pc, FALSE) EXCEPT !.must_cancel = TRUE]

\* CancelledError delivered: a coroutine that never ran, or waits outside the
\* try block (the initial delay), ends cancelled; inside the try block the
\* handler breaks out of the loop.
throw_cancelled(t) ==
    IF t.pc \in {"new", "delay"}
    THEN finish(t, "cancelled", FALSE)
    ELSE finish(t, "done", FALSE)

\* A launch that starts the command twice.
spawn_twice(t, key, raises, nextpc) ==
    IF raises
    THEN [t EXCEPT !.pc = "done"]
    ELSE [t EXCEPT !.trace = @ \o <<key, key>>, !.pc = nextpc]

\* create_subprocess_exec('tmux', 'send-keys', '-t', session, key): the
\* process is spawned, or the launch raises and `except Exception` breaks.
spawn(t, key, raises, nextpc) ==
    IF raises
    THEN finish(t, "done", TRUE)
    ELSE [t EXCEPT !.trace = Append(@, key), !.pc = nextpc]

\* await proc.communicate(): the exit status is read by nobody.
communicate(t, rc) == [t EXCEPT !.failed = @ \/ (rc # 0)]

\* A wait that is over at once: no interval has passed.
interval_skipped(t) == t

\* The wait for one whole interval is over.
interval_over(t) == [t EXCEPT !.waited = TRUE]

\* One invocation of a schedule begins: its first or a later one, preceded
\* by a whole interval wait or not.
begin_iteration(t) ==
    [t EXCEPT !.invocation = IF @ = "none" THEN "first" ELSE "later",
              !.preceded = t.waited, !.waited = FALSE,
              !.trace = <<>>, !.failed = FALSE, !.complete = FALSE,
              !.i = 0, !.delay = FALSE]

\* The invocation has issued its last command and that command has exited.
end_iteration(t) == [t EXCEPT !.complete = TRUE]

\* start_message_timer.timer_loop, from one await to the next.
timer_loop(t, rc, raises) ==
    CASE t.pc = "new" ->
           spawn(begin_iteration(t), "msg", raises, "text")
      [] t.pc = "text" ->
           spawn(communicate(t, rc), "C-m", raises, "enter")
      [] t.pc = "enter" ->
           [end_iteration(communicate(t, rc)) EXCEPT !.pc = "sleep"]
      [] t.pc = "sleep" ->
           spawn(begin_iteration(interval_over(t)), "msg", raises, "text")
      [] OTHER -> t

\* start_auto_cycle.execute_sequence, from one await to the next.
execute_sequence(t, rc, raises) ==
    CASE t.pc = "begin" ->
           spawn(t, "C-c", raises, "cc")
      [] t.pc = "cc" ->
           [communicate(t, rc) EXCEPT !.pc = "ccsleep"]
      [] t.pc = "ccsleep" ->
           IF t.i + 1 < 5
           THEN spawn([t EXCEPT !.i = @ + 1], "C-c", raises, "cc")
           ELSE [t EXCEPT !.i = @ + 1, !.pc = "wait1"]
      [] t.pc = "wait1" ->
           spawn(t, "mullvad reconnect", raises, "mullvad")
      [] t.pc = "mullvad" ->
           spawn(communicate(t, rc), "Enter", raises, "mullvad_enter")
      [] t.pc = "mullvad_enter" ->
           [communicate(t, rc) EXCEPT !.pc = "wait3"]
      [] t.pc = "wait3" ->
           spawn(t, "claudex -c", raises, "claudex")
      [] t.pc = "claudex" ->
           spawn(communicate(t, rc), "Enter", raises, "claudex_enter")
      [] t.pc = "claudex_enter" ->
           [end_iteration(communicate(t, rc)) EXCEPT !.pc = "report"]
      [] t.pc = "report" ->
           [t EXCEPT !.pc = "sleep"]
      [] OTHER -> t

\* start_auto_cycle.cycle_loop, from one await to the next.
cycle_loop(t, rc, raises) ==
    CASE t.pc = "new" /\ t.delay ->
           [t EXCEPT !.pc = "delay"]
      [] t.pc = "new" /\ ~t.delay ->
           execute_sequence([begin_iteration(t) EXCEPT !.pc = "begin"], rc, raises)
      [] t.pc = "delay" ->
           execute_sequence([begin_iteration(t) EXCEPT !.pc = "begin"], rc, raises)
      [] t.pc = "sleep" ->
           execute_sequence(
               [begin_iteration(interval_over(t)) EXCEPT !.pc = "begin"], rc, raises)
      [] OTHER -> execute_sequence(t, rc, raises)

\* An event loop that lets a cancelled task finish the invocation it is in:
\* the cancellation is delivered only at the interval sleep.
task_step_deferred(t, rc, raises) ==
    IF t.must_cancel /\ t.pc \in {"new", "delay", "sleep"} THEN throw_cancelled(t)
    ELSE IF t.kind = "timer" THEN timer_loop(t, rc, raises)
    ELSE cycle_loop(t, rc, raises)

\* The event loop resumes a task: a pending cancellation is delivered first.
task_step(t, rc, raises) ==
    IF t.must_cancel THEN throw_cancelled(t)
    ELSE IF t.kind = "timer" THEN timer_loop(t, rc, raises)
    ELSE cycle_loop(t, rc, raises)

\* ------------------------------------------------------------ MCP server tools

\* The module's globals and the tasks they refer to.
mcp_state ==
    [active_timers |-> active_timers, active_cycles |-> active_cycles, tasks |-> tasks]

KindOf(op) ==
    IF op \in {"start_message_timer", "stop_message_timer"} THEN "timer" ELSE "cycle"

\* The registry a tool of the given kind works on.
registry(kind, st) == IF kind = "timer" THEN st.active_timers ELSE st.active_cycles

set_registry(kind, st, new) ==
    IF kind = "timer"
    THEN [st EXCEPT !.active_timers = new]
    ELSE [st EXCEPT !.active_cycles = new]

\* The tool's effect on the globals takes place.
becomes(st) ==
    /\ active_timers' = st.active_timers
    /\ active_cycles' = st.active_cycles
    /\ tasks' = st.tasks

InFlight == BagCardinality(calls)

\* A start tool that registers the new task without cancelling the old one.
cancel_existing_skipped(kind, s, st) == st

\* A start tool that cancels the registered tasks of every session.
cancel_existing_all(kind, s, st) ==
    [st EXCEPT !.tasks =
        [id \in 1..Len(st.tasks) |->
            IF \E s2 \in Sessions : registry(kind, st)[s2] = id
            THEN cancel(st.tasks[id]) ELSE st.tasks[id]]]

\* `if session_name in active_...: active_...[session_name].cancel()`
cancel_existing(kind, s, st) ==
    IF registry(kind, st)[s] # NoTask
    THEN [st EXCEPT !.tasks[registry(kind, st)[s]] = cancel(@)]
    ELSE st

\* No stop tool has returned since the last start.
NoResult == [op |-> "none", session |-> "", success |-> FALSE]

\* A start tool from its entry to its awaits of ctx.info: the registry check.
start_enter(op, s, delay, interval) ==
    /\ becomes(cancel_existing(KindOf(op), s, mcp_state))
    /\ calls' = calls (+) SetToBag({[op |-> op, session |-> s, delay |-> delay,
                                     interval |-> interval]})
    /\ stop_result' = NoResult

\* `task = asyncio.create_task(...); active_...[session_name] = task`
register(kind, s, delay, interval, st) ==
    set_registry(kind,
                 [st EXCEPT !.tasks = Append(@, [create_task(kind, s, delay)
                                                    EXCEPT !.interval = interval])],
                 [registry(kind, st) EXCEPT ![s] = Len(st.tasks) + 1])

\* A start tool resumed after `await ctx.info(...)`, to its return.
start_resume(c) ==
    /\ program = "mcp"
    /\ BagIn(c, calls)
    /\ Len(tasks) < MaxTasks
    /\ becomes(register(KindOf(c.op), c.session, c.delay, c.interval, mcp_state))
    /\ calls' = calls (-) SetToBag({c})
    /\ UNCHANGED stop_result
    /\ mcp_only

\* A stop tool that cancels the task and keeps the entry.
stop_tool_entry_kept(kind, s, st) ==
    IF registry(kind, st)[s] = NoTask
    THEN st
    ELSE [st EXCEPT !.tasks[registry(kind, st)[s]] = cancel(@)]

\* A stop tool, entry to return: `if session_name not in active_...` it
\* returns an error, else `.cancel(); del active_...[session_name]`.  Its one
\* await (ctx.warning or ctx.info) comes after its last access to the globals.
stop_tool(kind, s, st) ==
    IF registry(kind, st)[s] = NoTask
    THEN st
    ELSE set_registry(kind,
                      [st EXCEPT !.tasks[registry(kind, st)[s]] = cancel(@)],
                      [registry(kind, st) EXCEPT ![s] = NoTask])

start_message_timer(s, interval_seconds, limit) ==
    /\ program = "mcp"
    /\ InFlight < limit
    /\ start_enter("start_message_timer", s, FALSE, interval_seconds)
    /\ mcp_only

start_auto_cycle(s, initial_delay, limit) ==
    /\ program = "mcp"
    /\ InFlight < limit
    /\ start_enter("start_auto_cycle", s, initial_delay, 240)
    /\ mcp_only

\* What a stop tool returns: success False with an error when the session
\* has no entry, else success True.
stop_return(op, s, st, env) ==
    IF env.results
    THEN [op |-> op, session |-> s, success |-> registry(KindOf(op), st)[s] # NoTask]
    ELSE NoResult

stop_message_timer(s, limit, env) ==
    /\ program = "mcp"
    /\ InFlight < limit
    /\ becomes(stop_tool("timer", s, mcp_state))
    /\ stop_result' = stop_return("stop_message_timer", s, mcp_state, env)
    /\ UNCHANGED calls
    /\ mcp_only

stop_auto_cycle(s, limit, env) ==
    /\ program = "mcp"
    /\ InFlight < limit
    /\ becomes(stop_tool("cycle", s, mcp_state))
    /\ stop_result' = stop_return("stop_auto_cycle", s, mcp_state, env)
    /\ UNCHANGED calls
    /\ mcp_only

\* The event loop runs one task until its next await.
run_task(id, env) ==
    /\ program = "mcp"
    /\ id \in 1..Len(tasks)
    /\ ~Finished(tasks[id])
    /\ \E rc \in env.codes, raises \in env.raising :
           tasks' = [tasks EXCEPT ![id] = task_step(@, rc, raises)]
    /\ UNCHANGED <<active_timers, active_cycles, calls, stop_result>>
    /\ mcp_only

\* MCP server: module load.
InitMCP ==
    /\ active_timers = [s \in Sessions |-> NoTask]
    /\ active_cycles = [s \in Sessions |-> NoTask]
    /\ tasks = <<>>
    /\ calls = EmptyBag
    /\ stop_result = NoResult

tools(limit, env) ==
    \/ \E s \in env.sessions, i \in env.intervals : start_message_timer(s, i, limit)
    \/ \E s \in env.sessions : stop_message_timer(s, limit, env)
    \/ \E s \in env.cycling, d \in BOOLEAN : start_auto_cycle(s, d, limit)
    \/ \E s \in env.sessions : stop_auto_cycle(s, limit, env)
    \/ \E c \in BagToSet(calls) : start_resume(c)
    \/ \E id \in 1..MaxTasks : run_task(id, env)

\* ------------------------------------------------- threaded GUI (TmuxMessenger)

\* TmuxMessenger.__init__ and setup_ui; `main` is where the Tk main thread is.
TmuxMessenger_init ==
    [timer_active |-> FALSE, timer_thread |-> 0,
     auto_cycle_active |-> FALSE, auto_cycle_thread |-> 0, first_launch |-> TRUE,
     start_auto_btn |-> "normal", stop_auto_btn |-> "disabled",
     send_once_btn |-> "normal", start_timer_btn |-> "normal",
     stop_timer_btn |-> "disabled", main |-> "idle", timer_entry |-> "5"]

\* Texts the user leaves in the timer entry.
Entries == {"5", "0", "-1", "abc"}

\* float(text): the number, or ValueError.
float(text) ==
    CASE text = "5" -> [ok |-> TRUE, value |-> 5]
      [] text = "0" -> [ok |-> TRUE, value |-> 0]
      [] text = "-1" -> [ok |-> TRUE, value |-> -1]
      [] OTHER -> [ok |-> FALSE, value |-> 0]

\* An interval check that takes any number.
interval_any_number(text) == float(text).ok

\* The try block of start_timer: float() succeeds and the number is positive.
interval_accepted(text) == float(text).ok /\ float(text).value > 0

\* The environment of one specification of the threaded GUI: how many worker
\* threads alive at once a run has, the exit statuses tmux returns, and
\* whether launching tmux can raise.
GuiEnv(alive, codes, raising) ==
    [alive |-> alive, codes |-> codes, raising |-> raising]

\* threading.Thread(target=..., daemon=True)
Thread(kind) == create_task(kind, "s1", FALSE)

\* Where the next thread is kept: the place of a thread that is over, or a
\* new place; 0 when as many threads are alive as the model follows.
new_thread(ths, alive) ==
    IF \E id \in 1..Len(ths) : Finished(ths[id])
    THEN CHOOSE id \in 1..Len(ths) :
             Finished(ths[id]) /\ \A j \in 1..(id - 1) : ~Finished(ths[j])
    ELSE IF Len(ths) < alive THEN Len(ths) + 1 ELSE 0

\* thread.start()
thread_start(ths, t, alive) ==
    [id \in 1..(IF new_thread(ths, alive) > Len(ths) THEN Len(ths) + 1 ELSE Len(ths)) |->
        IF id = new_thread(ths, alive) THEN t ELSE ths[id]]

\* subprocess.run([...], check=True), call to return: FileNotFoundError
\* when tmux cannot be started, CalledProcessError on a non-zero exit status;
\* either is caught by the caller, which goes on at errpc.
subprocess_run(t, key, rc, raises, nextpc, errpc) ==
    IF raises
    THEN [t EXCEPT !.failed = TRUE, !.pc = errpc]
    ELSE IF rc # 0
         THEN [t EXCEPT !.trace = Append(@, key), !.failed = TRUE, !.pc = errpc]
         ELSE [t EXCEPT !.trace = Append(@, key), !.pc = nextpc]

\* The loop comes round: the record of the invocation before is dropped.
next_round(t) == [t EXCEPT !.trace = <<>>, !.failed = FALSE, !.complete = FALSE]

\* TmuxMessenger.send_message_to_session in a worker; an error shows a
\* message box ("dialog") and returns False.
TmuxMessenger_send_message_to_session(t, rc, raises) ==
    CASE t.pc = "begin" ->
           subprocess_run(t, "msg", rc, raises, "text", "dialog")
      [] t.pc = "text" ->
           LET r == subprocess_run(t, "C-m", rc, raises, "wait", "dialog")
           IN  IF r.failed THEN r ELSE end_iteration(r)
      [] t.pc = "dialog" ->
           [t EXCEPT !.pc = "wait"]
      [] OTHER -> t

\* TmuxMessenger.start_timer.timer_loop: `while self.timer_active:` send, then
\* sleep in 0.1 s slices until the interval is over or the flag is cleared.
TmuxMessenger_timer_loop(t, g, rc, raises) ==
    CASE t.pc \in {"new", "check"} ->
           IF g.timer_active
           THEN TmuxMessenger_send_message_to_session(
                    [begin_iteration(t) EXCEPT !.pc = "begin"], rc, raises)
           ELSE finish(t, "done", FALSE)
      [] t.pc = "wait" ->
           IF g.timer_active
           THEN [next_round(interval_over(t)) EXCEPT !.pc = "check"]
           ELSE [next_round(t) EXCEPT !.pc = "check"]
      [] OTHER -> TmuxMessenger_send_message_to_session(t, rc, raises)

\* TmuxMessenger.send_exit_continue_sequence, one tmux command a step, each
\* with the sleep before it; an error returns False.
TmuxMessenger_send_exit_continue_sequence(t, rc, raises) ==
    CASE t.pc = "begin" ->
           subprocess_run(t, "C-c", rc, raises, "ccsleep", "loop")
      [] t.pc = "ccsleep" ->
           IF t.i + 1 < 5
           THEN subprocess_run([t EXCEPT !.i = @ + 1], "C-c", rc, raises, "ccsleep", "loop")
           ELSE subprocess_run([t EXCEPT !.i = @ + 1], "mullvad reconnect", rc, raises,
                               "mullvad", "loop")
      [] t.pc = "mullvad" ->
           subprocess_run(t, "Enter", rc, raises, "wait3", "loop")
      [] t.pc = "wait3" ->
           subprocess_run(t, "claudex -c", rc, raises, "claudex", "loop")
      [] t.pc = "claudex" ->
           LET r == subprocess_run(t, "Enter", rc, raises, "loop", "loop")
           IN  IF r.failed THEN r ELSE end_iteration(r)
      [] OTHER -> t

\* TmuxMessenger.start_auto_cycle.auto_cycle_loop.  `if self.first_launch:`
\* and `self.first_launch = False` are two steps of the thread.
TmuxMessenger_auto_cycle_loop(t, g, rc, raises) ==
    CASE t.pc = "new" ->
           IF g.first_launch
           THEN [t EXCEPT !.pc = "set_first", !.found_first = TRUE]
           ELSE [t EXCEPT !.pc = "loop"]
      [] t.pc = "set_first" ->
           TmuxMessenger_send_exit_continue_sequence(
               [begin_iteration(t) EXCEPT !.pc = "begin"], rc, raises)
      [] t.pc = "loop" ->
           IF g.auto_cycle_active
           THEN [next_round(t) EXCEPT !.pc = "wait"]
           ELSE finish(t, "done", FALSE)
      [] t.pc = "wait" ->
           IF g.auto_cycle_active
           THEN [interval_over(t) EXCEPT !.pc = "recheck"]
           ELSE [t EXCEPT !.pc = "recheck"]
      [] t.pc = "recheck" ->
           IF g.auto_cycle_active
           THEN TmuxMessenger_send_exit_continue_sequence(
                    [begin_iteration(t) EXCEPT !.pc = "begin"], rc, raises)
           ELSE [t EXCEPT !.pc = "loop"]
      [] OTHER -> TmuxMessenger_send_exit_continue_sequence(t, rc, raises)

\* The scheduler runs one worker thread up to its next blocking call or
\* its next read of a shared flag.
run_thread(id, env) ==
    /\ program = "gui"
    /\ id \in 1..Len(threads)
    /\ ~Finished(threads[id])
    /\ \E rc \in env.codes, raises \in env.raising :
           threads' = [threads EXCEPT ![id] =
                          IF @.kind = "timer"
                          THEN TmuxMessenger_timer_loop(@, gui, rc, raises)
                          ELSE TmuxMessenger_auto_cycle_loop(@, gui, rc, raises)]
    /\ gui' = IF threads[id].kind = "cycle" /\ threads[id].pc = "set_first"
              THEN [gui EXCEPT !.first_launch = FALSE]
              ELSE gui
    /\ gui_only

\* A worker is inside a call that outlasts join's one-second timeout: a tmux
\* command, an error dialog, or the exit/continue sequence with its sleeps.
Blocking(t) ==
    t.pc \in {"text", "dialog", "ccsleep", "mullvad", "wait3", "claudex"}

\* `thread.join(timeout=1)` returns: the thread is over, or the timeout
\* passed with the worker still blocked.
join(id) == id = 0 \/ Finished(threads[id]) \/ Blocking(threads[id])

\* start_timer past its input checks, with the new worker's id.
TmuxMessenger_start_timer_effect(g, id) ==
    [g EXCEPT !.timer_active = TRUE, !.start_timer_btn = "disabled",
              !.stop_timer_btn = "normal", !.send_once_btn = "disabled",
              !.timer_thread = id]

\* A Stop Timer that flips the flag instead of clearing it.
TmuxMessenger_stop_timer_toggle(g) == [g EXCEPT !.timer_active = ~@]

\* stop_timer up to its join.
TmuxMessenger_stop_timer_flag(g) == [g EXCEPT !.timer_active = FALSE]

\* stop_timer after its join.
TmuxMessenger_stop_timer_buttons(g) ==
    [g EXCEPT !.start_timer_btn = "normal", !.stop_timer_btn = "disabled",
              !.send_once_btn = "normal"]

\* stop_timer, entry to return.
TmuxMessenger_stop_timer_effect(g) ==
    TmuxMessenger_stop_timer_buttons(TmuxMessenger_stop_timer_flag(g))

\* start_auto_cycle past its session check, with the new worker's id.
TmuxMessenger_start_auto_cycle_effect(g, id) ==
    [g EXCEPT !.auto_cycle_active = TRUE, !.start_auto_btn = "disabled",
              !.stop_auto_btn = "normal", !.start_timer_btn = "disabled",
              !.send_once_btn = "disabled", !.auto_cycle_thread = id]

\* stop_auto_cycle up to its join.
TmuxMessenger_stop_auto_cycle_flag(g) == [g EXCEPT !.auto_cycle_active = FALSE]

\* stop_auto_cycle after its join.
TmuxMessenger_stop_auto_cycle_buttons(g) ==
    [g EXCEPT !.start_auto_btn = "normal", !.stop_auto_btn = "disabled",
              !.start_timer_btn = "normal", !.send_once_btn = "normal"]

\* stop_auto_cycle, entry to return.
TmuxMessenger_stop_auto_cycle_effect(g) ==
    TmuxMessenger_stop_auto_cycle_buttons(TmuxMessenger_stop_auto_cycle_flag(g))

\* A click on an enabled button reaches its handler when the main thread is free.
clickable(g, btn) == g.main = "idle" /\ g[btn] = "normal"

\* Start Timer; `valid` is false when no session is selected or the message
\* is empty: the handler returns. An interval that is not a positive number
\* opens the error dialog.
TmuxMessenger_start_timer(valid, env) ==
    /\ program = "gui"
    /\ clickable(gui, "start_timer_btn")
    /\ IF ~valid
       THEN UNCHANGED <<gui, threads>>
       ELSE IF ~interval_accepted(gui.timer_entry)
       THEN /\ gui' = [gui EXCEPT !.main = "showerror"]
            /\ UNCHANGED threads
       ELSE /\ new_thread(threads, env.alive) # 0
            /\ gui' = TmuxMessenger_start_timer_effect(gui, new_thread(threads, env.alive))
            /\ threads' = thread_start(threads,
                                       [Thread("timer") EXCEPT
                                           !.interval = float(gui.timer_entry).value],
                                       env.alive)
    /\ gui_only

\* Stop Timer: clear the flag, join the worker, reset the buttons.
TmuxMessenger_stop_timer ==
    /\ program = "gui"
    /\ \/ /\ clickable(gui, "stop_timer_btn")
          /\ gui' = [TmuxMessenger_stop_timer_flag(gui) EXCEPT !.main = "join_timer"]
       \/ /\ gui.main = "join_timer"
          /\ join(gui.timer_thread)
          /\ gui' = [TmuxMessenger_stop_timer_buttons(gui) EXCEPT !.main = "idle"]
    /\ UNCHANGED threads
    /\ gui_only

\* Start Auto Cycle; `valid` is false when no session is selected.
TmuxMessenger_start_auto_cycle(valid, env) ==
    /\ program = "gui"
    /\ clickable(gui, "start_auto_btn")
    /\ IF valid
       THEN /\ new_thread(threads, env.alive) # 0
            /\ gui' = TmuxMessenger_start_auto_cycle_effect(gui, new_thread(threads, env.alive))
            /\ threads' = thread_start(threads, Thread("cycle"), env.alive)
       ELSE UNCHANGED <<gui, threads>>
    /\ gui_only

\* Stop Auto Cycle: clear the flag, join the worker, reset the buttons.
TmuxMessenger_stop_auto_cycle ==
    /\ program = "gui"
    /\ \/ /\ clickable(gui, "stop_auto_btn")
          /\ gui' = [TmuxMessenger_stop_auto_cycle_flag(gui) EXCEPT !.main = "join_cycle"]
       \/ /\ gui.main = "join_cycle"
          /\ join(gui.auto_cycle_thread)
          /\ gui' = [TmuxMessenger_stop_auto_cycle_buttons(gui) EXCEPT !.main = "idle"]
    /\ UNCHANGED threads
    /\ gui_only

\* The user replaces the text of the timer entry.
TmuxMessenger_timer_entry(text) ==
    /\ program = "gui"
    /\ gui.main = "idle"
    /\ gui.timer_entry # text
    /\ gui' = [gui EXCEPT !.timer_entry = text]
    /\ UNCHANGED threads
    /\ gui_only

\* The user closes the error dialog; messagebox.showerror returns and so
\* does the handler.
TmuxMessenger_showerror_ok ==
    /\ program = "gui"
    /\ gui.main = "showerror"
    /\ gui' = [gui EXCEPT !.main = "idle"]
    /\ UNCHANGED threads
    /\ gui_only

InitGUI ==
    /\ gui = TmuxMessenger_init
    /\ threads = <<>>

TmuxMessenger(env) ==
    \/ \E valid \in BOOLEAN : TmuxMessenger_start_timer(valid, env)
    \/ TmuxMessenger_stop_timer
    \/ \E valid \in BOOLEAN : TmuxMessenger_start_auto_cycle(valid, env)
    \/ TmuxMessenger_stop_auto_cycle
    \/ \E id \in 1..env.alive : run_thread(id, env)

\* ------------------------------------------------- UV GUI (TmuxMessengerUV)

\* TmuxMessengerUV.__init__ and setup_ui; callbacks and handlers all run on
\* the one main thread.
TmuxMessengerUV_init ==
    [timer_handle |-> 0, auto_cycle_handle |-> 0, first_launch |-> TRUE,
     start_auto_btn |-> "normal", stop_auto_btn |-> "disabled",
     send_once_btn |-> "normal", start_timer_btn |-> "normal",
     stop_timer_btn |-> "disabled", main |-> "idle", timer_entry |-> "5"]

\* pyuv.Timer(self.loop).start(callback, interval, interval): first due one
\* interval from now.
Timer(kind) == [create_task(kind, "s1", FALSE) EXCEPT !.pc = "armed"]

\* The object and the timers its handles refer to.
uv_state == [uv |-> uv, timers |-> uv_timers]

\* TmuxMessengerUV.send_message_to_session_uv: both processes are spawned
\* one after the other, neither is waited for.
TmuxMessengerUV_send_message_to_session_uv(t) ==
    end_iteration([t EXCEPT !.trace = @ \o <<"msg", "C-m">>])

\* start_timer.timer_callback
timer_callback(t) == TmuxMessengerUV_send_message_to_session_uv(begin_iteration(t))

\* send_exit_continue_sequence_uv.next_step: one step, which arms the
\* one-shot timer of the next step unless it is the last.
next_step(q) ==
    CASE q.i < 5 ->
           [q EXCEPT !.trace = Append(@, "C-c"), !.i = @ + 1]
      [] q.i = 5 ->
           [q EXCEPT !.i = @ + 1]
      [] q.i = 6 ->
           [q EXCEPT !.trace = @ \o <<"mullvad reconnect", "Enter">>, !.i = @ + 1]
      [] q.i = 7 ->
           [end_iteration([q EXCEPT !.trace = @ \o <<"claudex -c", "Enter">>])
               EXCEPT !.pc = "returned"]
      [] OTHER -> q

\* send_exit_continue_sequence_uv: `sequence_step = [0]`, then next_step().
TmuxMessengerUV_send_exit_continue_sequence_uv ==
    next_step(begin_iteration([create_task("sequence", "s1", FALSE) EXCEPT !.pc = "armed"]))

\* start_timer past its input checks.
TmuxMessengerUV_start_timer_effect(st) ==
    [uv |-> [st.uv EXCEPT !.start_timer_btn = "disabled", !.stop_timer_btn = "normal",
                          !.send_once_btn = "disabled",
                          !.timer_handle = Len(st.timers) + 1],
     timers |-> Append(st.timers,
                       [Timer("timer") EXCEPT
                           !.interval = float(st.uv.timer_entry).value])]

\* stop_timer, entry to return.
TmuxMessengerUV_stop_timer_effect(st) ==
    [uv |-> [st.uv EXCEPT !.timer_handle = 0, !.start_timer_btn = "normal",
                          !.stop_timer_btn = "disabled", !.send_once_btn = "normal"],
     timers |-> IF st.uv.timer_handle # 0
                THEN [st.timers EXCEPT ![st.uv.timer_handle] = finish(@, "done", FALSE)]
                ELSE st.timers]

\* start_auto_cycle past its session check: on the first launch the callback
\* runs at once; the periodic timer is first due 240 seconds from now.
TmuxMessengerUV_start_auto_cycle_effect(st) ==
    [uv |-> [st.uv EXCEPT !.start_auto_btn = "disabled", !.stop_auto_btn = "normal",
                          !.start_timer_btn = "disabled", !.send_once_btn = "disabled",
                          !.first_launch = FALSE,
                          !.auto_cycle_handle = Len(st.timers) + 1],
     timers |-> Append(st.timers,
                       IF st.uv.first_launch
                       THEN begin_iteration([Timer("cycle") EXCEPT !.found_first = TRUE])
                       ELSE Timer("cycle"))]

\* stop_auto_cycle, entry to return.
TmuxMessengerUV_stop_auto_cycle_effect(st) ==
    [uv |-> [st.uv EXCEPT !.auto_cycle_handle = 0, !.start_auto_btn = "normal",
                          !.stop_auto_btn = "disabled", !.start_timer_btn = "normal",
                          !.send_once_btn = "normal"],
     timers |-> IF st.uv.auto_cycle_handle # 0
                THEN [st.timers EXCEPT ![st.uv.auto_cycle_handle] = finish(@, "done", FALSE)]
                ELSE st.timers]

uv_becomes(st) == uv' = st.uv /\ uv_timers' = st.timers

\* The environment of one specification of the UV GUI: how many periodic
\* timers a run creates, and how many running tmux processes it follows to
\* their exit (0: a process is not followed once it is spawned).
UvEnv(handles, procs) == [handles |-> handles, procs |-> procs]

\* pyuv.Process(self.loop).spawn(file="tmux", args=[..., key], exit_callback=...):
\* the processes a callback has spawned for the commands of r.trace after
\* the first `from`, running from now on.
Process_spawn(owner, r, from) ==
    {[of |-> owner, n |-> n, key |-> r.trace[n]] : n \in (from + 1)..Len(r.trace)}

\* The callback returns to the loop with its processes running.
running(new, env) ==
    IF env.procs = 0
    THEN UNCHANGED uv_procs
    ELSE /\ Cardinality(uv_procs \cup new) <= env.procs
         /\ uv_procs' = uv_procs \cup new

TmuxMessengerUV_start_timer(valid, env) ==
    /\ program = "uv"
    /\ clickable(uv, "start_timer_btn")
    /\ IF ~valid
       THEN UNCHANGED <<uv, uv_timers>>
       ELSE IF ~interval_accepted(uv.timer_entry)
       THEN /\ uv' = [uv EXCEPT !.main = "showerror"]
            /\ UNCHANGED uv_timers
       ELSE /\ Len(uv_timers) < env.handles
            /\ uv_becomes(TmuxMessengerUV_start_timer_effect(uv_state))
    /\ UNCHANGED <<uv_seqs, uv_procs>>
    /\ uv_only

TmuxMessengerUV_stop_timer ==
    /\ program = "uv"
    /\ clickable(uv, "stop_timer_btn")
    /\ uv_becomes(TmuxMessengerUV_stop_timer_effect(uv_state))
    /\ UNCHANGED <<uv_seqs, uv_procs>>
    /\ uv_only

TmuxMessengerUV_start_auto_cycle(valid, env) ==
    /\ program = "uv"
    /\ clickable(uv, "start_auto_btn")
    /\ IF valid
       THEN /\ Len(uv_timers) < env.handles
            /\ uv_becomes(TmuxMessengerUV_start_auto_cycle_effect(uv_state))
            /\ IF uv.first_launch
               THEN /\ Len(uv_seqs) < MaxSeqs
                    /\ uv_seqs' = Append(uv_seqs, TmuxMessengerUV_send_exit_continue_sequence_uv)
                    /\ running(Process_spawn(<<"sequence", Len(uv_seqs) + 1>>,
                                             TmuxMessengerUV_send_exit_continue_sequence_uv, 0),
                               env)
               ELSE UNCHANGED <<uv_seqs, uv_procs>>
       ELSE UNCHANGED <<uv, uv_timers, uv_seqs, uv_procs>>
    /\ uv_only

TmuxMessengerUV_stop_auto_cycle ==
    /\ program = "uv"
    /\ clickable(uv, "stop_auto_btn")
    /\ uv_becomes(TmuxMessengerUV_stop_auto_cycle_effect(uv_state))
    /\ UNCHANGED <<uv_seqs, uv_procs>>
    /\ uv_only

\* A periodic timer is due, one interval after it was armed or last fired:
\* the loop calls its callback.
timer_due(id, env) ==
    /\ program = "uv"
    /\ id \in 1..Len(uv_timers)
    /\ uv_timers[id].pc = "armed"
    /\ IF uv_timers[id].kind = "timer"
       THEN /\ uv_timers' = [uv_timers EXCEPT ![id] = timer_callback(interval_over(@))]
            /\ UNCHANGED uv_seqs
            /\ running(Process_spawn(<<"timer", id>>,
                                     timer_callback(interval_over(uv_timers[id])), 0),
                       env)
       ELSE /\ Len(uv_seqs) < MaxSeqs
            /\ uv_timers' = [uv_timers EXCEPT ![id] = begin_iteration(interval_over(@))]
            /\ uv_seqs' = Append(uv_seqs, TmuxMessengerUV_send_exit_continue_sequence_uv)
            /\ running(Process_spawn(<<"sequence", Len(uv_seqs) + 1>>,
                                     TmuxMessengerUV_send_exit_continue_sequence_uv, 0),
                       env)
    /\ UNCHANGED uv
    /\ uv_only

\* The one-shot timer of a sequence invocation is due: its next step runs.
step_due(k, env) ==
    /\ program = "uv"
    /\ k \in 1..Len(uv_seqs)
    /\ uv_seqs[k].pc = "armed"
    /\ uv_seqs' = [uv_seqs EXCEPT ![k] = next_step(@)]
    /\ running(Process_spawn(<<"sequence", k>>, next_step(uv_seqs[k]),
                             Len(uv_seqs[k].trace)),
               env)
    /\ UNCHANGED <<uv, uv_timers>>
    /\ uv_only

\* A tmux process exits; its exit callback does nothing (`lambda p, s, t:
\* None`, or on_exit with no callback given).
on_exit(p) ==
    /\ program = "uv"
    /\ p \in uv_procs
    /\ uv_procs' = uv_procs \ {p}
    /\ UNCHANGED <<uv, uv_timers, uv_seqs>>
    /\ uv_only

\* The user replaces the text of the timer entry.
TmuxMessengerUV_timer_entry(text) ==
    /\ program = "uv"
    /\ uv.main = "idle"
    /\ uv.timer_entry # text
    /\ uv' = [uv EXCEPT !.timer_entry = text]
    /\ UNCHANGED <<uv_timers, uv_seqs, uv_procs>>
    /\ uv_only

\* The user closes the error dialog; the timers of the loop went on meanwhile.
TmuxMessengerUV_showerror_ok ==
    /\ program = "uv"
    /\ uv.main = "showerror"
    /\ uv' = [uv EXCEPT !.main = "idle"]
    /\ UNCHANGED <<uv_timers, uv_seqs, uv_procs>>
    /\ uv_only

InitUV ==
    /\ uv = TmuxMessengerUV_init
    /\ uv_timers = <<>>
    /\ uv_seqs = <<>>
    /\ uv_procs = {}

TmuxMessengerUV(env) ==
    \/ \E valid \in BOOLEAN : TmuxMessengerUV_start_timer(valid, env)
    \/ TmuxMessengerUV_stop_timer
    \/ \E valid \in BOOLEAN : TmuxMessengerUV_start_auto_cycle(valid, env)
    \/ TmuxMessengerUV_stop_auto_cycle
    \/ \E id \in 1..env.handles : timer_due(id, env)
    \/ \E k \in 1..MaxSeqs : step_due(k, env)

\* ------------------------------ one-shot tools (send_message_to_session,
\* send_ctrl_c, launch_agent of both servers)

\* Values of `count`.
Counts == -1..MaxCount

\* Values of `agent`.
Agents == {"gemini", "claude", "codex", "swarm", "Swarm", "swarmcode", "bard"}

\* Values of `channel`: none, a channel of channel_map, a name outside it.
Channels == {"", "a", "Z"}

\* A lower() that leaves capitals alone.
lower_kept(name) == name

\* str.lower() and str.upper() on the names above.
lower(name) == IF name = "Swarm" THEN "swarm" ELSE name

upper(name) == IF name = "a" THEN "A" ELSE IF name = "b" THEN "B" ELSE name

\* agent_commands
agent_commands ==
    [a \in {"gemini", "claude", "codex", "swarm"} |->
        IF a = "swarm" THEN "swarmcode" ELSE a]

\* channel_map.keys()
channel_map == {"A", "B", "C", "D", "E", "BROADCAST", "ISOLATED"}

\* No tool has been called.
NoRequest ==
    [tool |-> "none", agent |-> "", channel |-> "", count |-> 0,
     session |-> [name |-> "s1", channel |-> ""],
     pc |-> "returned", i |-> 0, trace |-> <<>>, codes |-> <<>>,
     result |-> [success |-> FALSE, error |-> "", sent |-> -1, channel |-> ""]]

\* The host calls a tool: the coroutine is created with its arguments.
Request(tool, agent, channel, count) ==
    [NoRequest EXCEPT !.tool = tool, !.agent = agent, !.channel = channel,
                      !.count = count, !.pc = "begin"]

\* `return {"success": ..., "error": ..., "sent": ...}`; sent is -1 and
\* channel is "" when the result has no such key.
return(r, success, error, sent) ==
    [r EXCEPT !.pc = "returned",
              !.result = [success |-> success, error |-> error, sent |-> sent,
                          channel |-> ""]]

\* The response of launch_agent: `if channel: response["channel"] = channel`.
response(r) == [return(r, TRUE, "", -1) EXCEPT !.result.channel = r.channel]

\* await asyncio.create_subprocess_exec('tmux', ..., key): the process is
\* spawned and the coroutine goes on to nextpc, or the launch raises and
\* `except Exception` returns the failure.
create_subprocess_exec(r, key, raises, nextpc) ==
    IF raises
    THEN return(r, FALSE, "exception", -1)
    ELSE [r EXCEPT !.trace = Append(@, key), !.pc = nextpc]

\* await proc.communicate(): the process has exited with status rc.
proc_communicate(r, rc) == [r EXCEPT !.codes = Append(@, rc)]

\* An exit status test that passes every status.
returncode_ignored(rc) == FALSE

\* `if proc.returncode != 0`
returncode_failed(rc) == rc # 0

\* A loop test that runs one round more.
range_one_more(i, count) == i <= count

\* `for i in range(count)`: there is a round i.
range_has(i, count) == i < count

\* send_message_to_session, from one await to the next.
send_message_to_session(r, rc, raises) ==
    CASE r.pc = "begin" -> create_subprocess_exec(r, "msg", raises, "text")
      [] r.pc = "text" ->
            IF returncode_failed(rc)
            THEN return(proc_communicate(r, rc), FALSE, "stderr", -1)
            ELSE [proc_communicate(r, rc) EXCEPT !.pc = "sleep"]
      [] r.pc = "sleep" -> create_subprocess_exec(r, "Enter", raises, "enter")
      [] r.pc = "enter" -> return(proc_communicate(r, rc), TRUE, "", -1)
      [] OTHER -> r

\* send_ctrl_c, from one await to the next.
send_ctrl_c(r, rc, raises) ==
    CASE r.pc \in {"begin", "sleep"} ->
            IF range_has(r.i, r.count)
            THEN create_subprocess_exec(r, "C-c", raises, "ctrlc")
            ELSE return(r, TRUE, "", -1)
      [] r.pc = "ctrlc" ->
            IF returncode_failed(rc)
            THEN return(proc_communicate(r, rc), FALSE, "stderr", r.i)
            ELSE IF r.i < r.count - 1
            THEN [proc_communicate(r, rc) EXCEPT !.i = @ + 1, !.pc = "sleep"]
            ELSE return([proc_communicate(r, rc) EXCEPT !.i = @ + 1], TRUE, "", -1)
      [] OTHER -> r

\* The rest of launch_agent once the channel is settled: the command, half
\* a second, Enter.
launch(r, rc, raises) ==
    CASE r.pc = "launch" ->
            create_subprocess_exec(r, agent_commands[lower(r.agent)], raises, "command")
      [] r.pc = "command" ->
            IF returncode_failed(rc)
            THEN return(proc_communicate(r, rc), FALSE, "stderr", -1)
            ELSE [proc_communicate(r, rc) EXCEPT !.pc = "sleep"]
      [] r.pc = "sleep" -> create_subprocess_exec(r, "Enter", raises, "enter")
      [] r.pc = "enter" -> response(proc_communicate(r, rc))
      [] OTHER -> r

\* change_agent_channel as launch_agent calls it, from one await to the
\* next; `found` says whether list-sessions names the session. Its failures
\* are returned to launch_agent, which goes on with the old session name
\* from its `await ctx.info(...)`.
change_agent_channel(r, rc, raises, found) ==
    CASE r.pc = "begin" ->
            IF upper(r.channel) \notin channel_map \/ raises
            THEN [r EXCEPT !.pc = "launch"]
            ELSE [r EXCEPT !.trace = Append(@, "list-sessions"), !.pc = "list"]
      [] r.pc = "list" ->
            IF ~found \/ raises
            THEN [proc_communicate(r, rc) EXCEPT !.pc = "launch"]
            ELSE [proc_communicate(r, rc) EXCEPT !.trace = Append(@, "rename-session"),
                                                !.pc = "rename"]
      [] r.pc = "rename" ->
            [proc_communicate(r, rc) EXCEPT
                !.session = IF returncode_failed(rc) THEN @
                            ELSE [@ EXCEPT !.channel = upper(r.channel)],
                !.pc = "launch"]
      [] OTHER -> r

\* launch_agent of either server, from one await to the next; the server
\* without channels takes no channel.
launch_agent(r, rc, raises, found) ==
    CASE r.pc = "begin" ->
            IF lower(r.agent) \notin DOMAIN agent_commands
            THEN return(r, FALSE, "unknown agent", -1)
            ELSE IF r.channel # ""
            THEN change_agent_channel(r, rc, raises, found)
            ELSE [r EXCEPT !.pc = "launch"]
      [] r.pc \in {"list", "rename"} -> change_agent_channel(r, rc, raises, found)
      [] OTHER -> launch(r, rc, raises)

\* The host calls send_message_to_session.
call_send_message_to_session ==
    /\ program = "mcp"
    /\ request.pc = "returned"
    /\ request' = Request("send_message_to_session", "", "", 0)
    /\ request_only

\* The host calls send_ctrl_c.
call_send_ctrl_c(count) ==
    /\ program = "mcp"
    /\ request.pc = "returned"
    /\ request' = Request("send_ctrl_c", "", "", count)
    /\ request_only

\* The host calls launch_agent; only tmux_mcp_agent_channels.py takes a channel.
call_launch_agent(agent, channel) ==
    /\ program \in {"mcp", "channels"}
    /\ program = "mcp" => channel = ""
    /\ request.pc = "returned"
    /\ request' = Request("launch_agent", agent, channel, 0)
    /\ request_only

\* The event loop resumes the tool's coroutine, which runs to its next await
\* or to its return.
resume_request(env) ==
    /\ request.pc # "returned"
    /\ \E rc \in env.codes, raises \in env.raising, found \in BOOLEAN :
          request' = CASE request.tool = "send_message_to_session" ->
                              send_message_to_session(request, rc, raises)
                       [] request.tool = "send_ctrl_c" -> send_ctrl_c(request, rc, raises)
                       [] OTHER -> launch_agent(request, rc, raises, found)
    /\ request_only

InitRequest == request = NoRequest

one_shot_tools(env) ==
    \/ call_send_message_to_session
    \/ \E count \in Counts : call_send_ctrl_c(count)
    \/ \E agent \in Agents, channel \in Channels : call_launch_agent(agent, channel)
    \/ resume_request(env)

\* ---------------------------------- agent channels (broadcast_to_channel)

\* class AgentChannel(Enum), in definition order.
AgentChannel == <<"A", "B", "C", "D", "E", "BROADCAST", "ISOLATED">>

\* Session names a tmux server can have: the visible text, and the set of
\* zero-width channel characters found in the name.
SessionNames ==
    <<[name |-> "a", marks |-> {"A"}],
      [name |-> "ai", marks |-> {"A", "ISOLATED"}],
      [name |-> "b", marks |-> {"B"}],
      [name |-> "bc", marks |-> {"BROADCAST"}],
      [name |-> "iso", marks |-> {"ISOLATED"}],
      [name |-> "plain", marks |-> {}]>>

\* Values of `channel` given to broadcast_to_channel.
BroadcastChannels == {"A", "b", "BROADCAST", "ISOLATED", "Z"}

\* get_channel_from_session: the first channel of the enumeration whose
\* character is in the name, or None.
get_channel_from_session(session_name) ==
    IF session_name.marks = {}
    THEN "None"
    ELSE AgentChannel[CHOOSE n \in 1..Len(AgentChannel) :
                         /\ AgentChannel[n] \in session_name.marks
                         /\ \A m \in 1..(n - 1) : AgentChannel[m] \notin session_name.marks]

\* A channel test that takes every tagged session.
any_channel(session_name, channel) == get_channel_from_session(session_name) # "None"

\* `if session_channel == channel_enum`
in_channel(session_name, channel) == get_channel_from_session(session_name) = channel

\* find_agents_in_channel, call to return: the sessions of the output whose
\* channel is the one asked for; nothing when the channel is not in
\* channel_map, tmux cannot be launched or list-sessions exits non-zero.
find_agents_in_channel(stdout, channel, rc, raises) ==
    IF upper(channel) \notin channel_map \/ raises \/ rc # 0
    THEN <<>>
    ELSE SelectSeq(stdout, LAMBDA session_name : in_channel(session_name, upper(channel)))

\* broadcast_to_channel has not been called.
NoBroadcast ==
    [channel |-> "", pc |-> "returned", queries |-> <<>>, listed |-> TRUE,
     agents |-> <<>>, i |-> 1, text_ok |-> FALSE, sends |-> <<>>,
     successful_sends |-> 0, failed_sends |-> 0, success |-> FALSE]

\* The next agent of `for agent in agents`, or the return at the end of the loop.
next_agent(b) ==
    IF b.i < Len(b.agents)
    THEN [b EXCEPT !.i = @ + 1, !.pc = "send"]
    ELSE [b EXCEPT !.i = @ + 1, !.pc = "returned", !.success = b.successful_sends > 0]

\* broadcast_to_channel, from one await to the next. `listed` keeps whether
\* every list-sessions so far was launched and exited 0.
broadcast_to_channel(b, stdout, rc, raises) ==
    CASE b.pc = "find" ->
            IF upper(b.channel) = "BROADCAST"
            THEN [b EXCEPT !.pc = "find_all", !.queries = <<"A", "B", "C", "D", "E">>,
                           !.listed = @ /\ ~raises /\ rc = 0]
            ELSE next_agent([b EXCEPT !.agents = find_agents_in_channel(stdout, b.channel, rc, raises),
                                      !.listed = @ /\ ~raises /\ rc = 0,
                                      !.i = 0])
      [] b.pc = "find_all" ->
            IF Len(b.queries) > 1
            THEN [b EXCEPT !.agents = @ \o find_agents_in_channel(stdout, Head(b.queries), rc, raises),
                           !.listed = @ /\ ~raises /\ rc = 0,
                           !.queries = Tail(@)]
            ELSE next_agent([b EXCEPT !.agents = @ \o find_agents_in_channel(stdout, Head(b.queries), rc, raises),
                                      !.listed = @ /\ ~raises /\ rc = 0,
                                      !.queries = Tail(@), !.i = 0])
      [] b.pc = "send" ->
            IF raises
            THEN next_agent([b EXCEPT !.failed_sends = @ + 1])
            ELSE [b EXCEPT !.sends = Append(@, [target |-> b.agents[b.i], key |-> "msg"]),
                           !.pc = "text"]
      [] b.pc = "text" -> [b EXCEPT !.text_ok = (rc = 0), !.pc = "sleep"]
      [] b.pc = "sleep" ->
            IF raises
            THEN next_agent([b EXCEPT !.failed_sends = @ + 1])
            ELSE [b EXCEPT !.sends = Append(@, [target |-> b.agents[b.i], key |-> "Enter"]),
                           !.pc = "enter"]
      [] b.pc = "enter" ->
            IF b.text_ok /\ rc = 0
            THEN next_agent([b EXCEPT !.successful_sends = @ + 1])
            ELSE next_agent([b EXCEPT !.failed_sends = @ + 1])
      [] OTHER -> b

\* The host calls broadcast_to_channel.
call_broadcast_to_channel(channel) ==
    /\ program = "channels"
    /\ broadcast.pc = "returned"
    /\ broadcast' = [NoBroadcast EXCEPT !.channel = channel, !.pc = "find"]
    /\ broadcast_only

\* The event loop resumes broadcast_to_channel, which runs to its next await
\* or to its return.
resume_broadcast(env) ==
    /\ program = "channels"
    /\ broadcast.pc # "returned"
    /\ \E rc \in env.codes, raises \in env.raising :
          broadcast' = broadcast_to_channel(broadcast, tmux_sessions, rc, raises)
    /\ broadcast_only

\* No session and no broadcast.
InitChannels ==
    /\ tmux_sessions = <<>>
    /\ broadcast = NoBroadcast

channel_tools(env) ==
    \/ \E channel \in BroadcastChannels : call_broadcast_to_channel(channel)
    \/ resume_broadcast(env)

\* ----------------------- session listing (list_tmux_sessions, tmux://sessions)

\* The characters of an output: a letter, the colon, a blank, the newline.
Chars == {"a", ":", " ", "\n"}

\* The outputs of `tmux list-sessions`, as sequences of characters.
Outputs == UNION {[1..n -> Chars] : n \in 0..MaxOutput}

\* The characters str.strip() removes.
Whitespace == {" ", "\n"}

RECURSIVE lstrip(_)
lstrip(text) ==
    IF text # <<>> /\ Head(text) \in Whitespace THEN lstrip(Tail(text)) ELSE text

RECURSIVE rstrip(_)
rstrip(text) ==
    IF text # <<>> /\ text[Len(text)] \in Whitespace
    THEN rstrip(SubSeq(text, 1, Len(text) - 1))
    ELSE text

\* str.strip()
strip(text) == rstrip(lstrip(text))

\* str.split(sep): the pieces between the separators, empty ones included.
RECURSIVE split(_, _)
split(text, sep) ==
    IF \A n \in 1..Len(text) : text[n] # sep
    THEN <<text>>
    ELSE LET at == CHOOSE n \in 1..Len(text) :
                       text[n] = sep /\ \A m \in 1..(n - 1) : text[m] # sep
         IN <<SubSeq(text, 1, at - 1)>> \o split(SubSeq(text, at + 1, Len(text)), sep)

\* sep.str_join(parts)
RECURSIVE str_join(_, _)
str_join(parts, sep) ==
    IF parts = <<>> THEN <<>>
    ELSE IF Len(parts) = 1 THEN parts[1]
    ELSE parts[1] \o <<sep>> \o str_join(Tail(parts), sep)

\* A line test that keeps the empty lines.
line_kept_always(line) == TRUE

\* `if line:`
line_kept(line) == line # <<>>

\* The entry of one line: `parts = line.split(':')` and the dictionary.
session_entry(line) ==
    [name |-> split(line, ":")[1],
     info |-> IF Len(split(line, ":")) > 1
              THEN strip(str_join(Tail(split(line, ":")), ":"))
              ELSE <<>>,
     full_line |-> line]

\* The loop over `stdout.decode().strip().split('\n')`.
parse_sessions(stdout) ==
    LET lines == SelectSeq(split(strip(stdout), "\n"), line_kept)
    IN [n \in 1..Len(lines) |-> session_entry(lines[n])]

\* Nothing has been listed.
NoListing ==
    [tool |-> "none", pc |-> "returned", stdout |-> <<>>, returncode |-> 0,
     sessions |-> <<>>, error |-> "", raised |-> FALSE]

\* list_tmux_sessions and list_sessions_resource from the communicate() of
\* list-sessions to the return: the tool re-raises an exception, the
\* resource returns it in an error object.
sessions_listed(l, stdout, rc, raises) ==
    IF raises
    THEN [l EXCEPT !.pc = "returned", !.error = "exception",
                   !.raised = (l.tool = "list_tmux_sessions")]
    ELSE IF rc # 0
    THEN [l EXCEPT !.pc = "returned", !.stdout = stdout, !.returncode = rc,
                   !.error = IF l.tool = "list_sessions_resource"
                             THEN "No tmux sessions found" ELSE ""]
    ELSE [l EXCEPT !.pc = "returned", !.stdout = stdout, !.returncode = rc,
                   !.sessions = parse_sessions(stdout)]

\* The host calls the list_tmux_sessions tool.
list_tmux_sessions ==
    /\ program = "mcp"
    /\ listing.pc = "returned"
    /\ listing' = [NoListing EXCEPT !.tool = "list_tmux_sessions", !.pc = "list"]
    /\ listing_only

\* The host reads the tmux://sessions resource.
list_sessions_resource ==
    /\ program = "mcp"
    /\ listing.pc = "returned"
    /\ listing' = [NoListing EXCEPT !.tool = "list_sessions_resource", !.pc = "list"]
    /\ listing_only

\* list-sessions has exited, or could not be launched.
resume_listing(env) ==
    /\ program = "mcp"
    /\ listing.pc = "list"
    /\ \E stdout \in Outputs, rc \in env.codes, raises \in env.raising :
          listing' = sessions_listed(listing, IF rc = 0 THEN stdout ELSE <<>>, rc, raises)
    /\ listing_only

InitListing == listing = NoListing

listing_tools(env) ==
    \/ list_tmux_sessions
    \/ list_sessions_resource
    \/ resume_listing(env)

\* ------------------------------------------------------------ specifications

Programs == {"mcp", "gui", "uv"}

Init ==
    /\ program \in Programs
    /\ InitMCP
    /\ InitGUI
    /\ InitUV
    /\ InitRequest
    /\ InitChannels
    /\ InitListing

\* Each tool call completes before the next begins; every failure of tmux.
Next ==
    \/ tools(1, Env({"s1"}, ExitCodes, BOOLEAN, {5}))
    \/ TmuxMessenger(GuiEnv(MaxThreads, ExitCodes, BOOLEAN))
    \/ TmuxMessengerUV(UvEnv(MaxTasks, 0))

\* Tool calls of the MCP host overlap at their awaits.
NextMCP == tools(MaxCalls, Env({"s1"}, {0}, {FALSE}, {5}))

Spec == Init /\ [][Next]_vars

SpecMCP == Init /\ [][NextMCP]_vars

\* The message timer and auto cycle tools called one at a time with any
\* interval_seconds, tmux never failing.
InitTools == Init /\ program = "mcp"

NextIntervals == tools(1, Env({"s1"}, {0}, {FALSE}, {-1, 0, 5}))

SpecIntervals == InitTools /\ [][NextIntervals]_vars

\* The two GUIs, the user editing the timer entry between clicks.
InitGUIs == Init /\ program \in {"gui", "uv"}

NextEntries ==
    \/ TmuxMessenger(GuiEnv(MaxThreads, {0}, {FALSE}))
    \/ TmuxMessengerUV(UvEnv(MaxTasks, 0))
    \/ \E text \in Entries : TmuxMessenger_timer_entry(text)
    \/ TmuxMessenger_showerror_ok
    \/ \E text \in Entries : TmuxMessengerUV_timer_entry(text)
    \/ TmuxMessengerUV_showerror_ok

SpecEntries == InitGUIs /\ [][NextEntries]_vars

\* The threaded GUI alone, with one worker more alive at once, tmux never
\* failing.
InitWorkers == Init /\ program = "gui"

NextWorkers == TmuxMessenger(GuiEnv(MaxThreads + 1, {0}, {FALSE}))

SpecWorkers == InitWorkers /\ [][NextWorkers]_vars

\* The one-shot tools of the two servers, one call at a time, every failure
\* of tmux.
InitRequests ==
    /\ program \in {"mcp", "channels"}
    /\ InitMCP
    /\ InitGUI
    /\ InitUV
    /\ InitRequest
    /\ InitChannels
    /\ InitListing

NextRequests == one_shot_tools(Env({"s1"}, ExitCodes, BOOLEAN, {5}))

SpecRequests == InitRequests /\ [][NextRequests]_vars

\* broadcast_to_channel on a tmux server with up to MaxSessions sessions,
\* one call at a time, every failure of tmux.
InitBroadcast ==
    /\ program = "channels"
    /\ InitMCP
    /\ InitGUI
    /\ InitUV
    /\ InitRequest
    /\ InitListing
    /\ broadcast = NoBroadcast
    /\ \E present \in SUBSET (1..Len(SessionNames)) :
          /\ Cardinality(present) <= MaxSessions
          /\ tmux_sessions = SelectSeq(SessionNames,
                                       LAMBDA session_name :
                                           \E n \in present : SessionNames[n] = session_name)

NextBroadcast == channel_tools(Env({"s1"}, ExitCodes, BOOLEAN, {5}))

SpecBroadcast == InitBroadcast /\ [][NextBroadcast]_vars

\* The timer and cycle tools on two sessions, one call at a time, tmux never
\* failing, timers on both sessions and auto-cycles on the first.
NextSessions == tools(1, Cycling(Env(Sessions, {0}, {FALSE}, {5}), {"s1"}))

SpecSessions == InitTools /\ [][NextSessions]_vars

\* The timer and cycle tools on one session, one call at a time, tmux never
\* failing, the host keeping what the stop tools return.
NextStops == tools(1, Observed(Env({"s1"}, {0}, {FALSE}, {5})))

SpecStops == InitTools /\ [][NextStops]_vars

\* The session listings of tmux_mcp_server.py over every output of up to
\* MaxOutput characters, every failure of tmux.
NextListing == listing_tools(Env({"s1"}, ExitCodes, BOOLEAN, {5}))

SpecListing == InitTools /\ [][NextListing]_vars

\* The UV GUI alone, with one periodic timer more in a run.
InitProcs == Init /\ program = "uv"

NextHandles == TmuxMessengerUV(UvEnv(MaxTasks + 1, 0))

SpecHandles == InitProcs /\ [][NextHandles]_vars

\* The UV GUI alone, its tmux processes followed to their exit.
NextProcs ==
    \/ TmuxMessengerUV(UvEnv(MaxTasks, MaxProcs))
    \/ \E p \in uv_procs : on_exit(p)

SpecProcs == InitProcs /\ [][NextProcs]_vars

\* ---------------------------------------------------------------- properties

\* Task ids of one kind and session.
TasksOf(kind, s) ==
    {id \in 1..Len(tasks) : tasks[id].kind = kind /\ tasks[id].session = s}

\* A task that still runs and has not been asked to stop.
Uncancelled(t) == ~Finished(t) /\ ~t.must_cancel

\* C1: with tool calls made one after the other, between calls a session has
\* at most one uncancelled task of a kind (message timer, auto cycle), and
\* whenever a start tool puts a new task in the place of a registered one,
\* the old task has been cancelled by then.
C1_OneTaskPerSession ==
    /\ [](InFlight = 0 =>
            \A kind \in Kinds, s \in Sessions :
                Cardinality({id \in TasksOf(kind, s) : Uncancelled(tasks[id])}) <= 1)
    /\ [][\A kind \in Kinds, s \in Sessions :
            LET old == registry(kind, mcp_state)[s]
                new == IF kind = "timer" THEN active_timers'[s] ELSE active_cycles'[s]
            IN  (old # NoTask /\ new # NoTask /\ new # old) => ~Uncancelled(tasks'[old])]_vars

\* C1 happens: a start tool has returned with a new task registered for a
\* session whose earlier task is cancelled and not yet over.
C1_Replaced ==
    /\ InFlight = 0
    /\ \E kind \in Kinds, s \in Sessions :
          \E old \in TasksOf(kind, s) :
              /\ tasks[old].must_cancel
              /\ ~Finished(tasks[old])
              /\ registry(kind, mcp_state)[s] \notin {NoTask, old}
              /\ Uncancelled(tasks[registry(kind, mcp_state)[s]])

\* C2: however start calls for one session interleave at their awaits, every
\* task that still runs uncancelled is the one its registry holds for its
\* session.
C2_NoOrphanTask ==
    \A id \in 1..Len(tasks) :
        Uncancelled(tasks[id]) =>
            registry(tasks[id].kind, mcp_state)[tasks[id].session] = id

\* C3: once a task is cancelled (its stop tool has returned success) it
\* issues no further send-keys, wherever in its loop it stands.
C3_NoSendAfterCancel ==
    [][\A id \in 1..Len(tasks) :
          tasks[id].must_cancel =>
              /\ tasks'[id].trace = tasks[id].trace
              /\ (tasks'[id] # tasks[id] => Finished(tasks'[id]))]_vars

\* C3 happens: a stop tool has returned for a task that stands between two
\* commands of its sequence.
C3_StoppedMidSequence ==
    \E id \in 1..Len(tasks) :
        /\ tasks[id].must_cancel
        /\ tasks[id].pc \in {"cc", "mullvad", "claudex", "text"}
        /\ registry(tasks[id].kind, mcp_state)[tasks[id].session] = NoTask

\* Worker threads of the threaded GUI, periodic timers of the UV GUI, by kind.
ThreadsOf(kind) == {id \in 1..Len(threads) : threads[id].kind = kind}

HandlesOf(kind) == {id \in 1..Len(uv_timers) : uv_timers[id].kind = kind}

\* Stop Auto Cycle has returned and Start Auto Cycle has not been clicked since.
GuiCycleStopped == ~gui.auto_cycle_active /\ gui.main = "idle"

UvCycleStopped == uv.auto_cycle_handle = 0

\* C4: in both GUIs, once stop_auto_cycle has returned, an exit/continue
\* sequence that was in progress issues none of its remaining commands.
C4_NoStepAfterStop ==
    [][/\ GuiCycleStopped =>
            \A id \in ThreadsOf("cycle") :
                Len(threads'[id].trace) <= Len(threads[id].trace)
       /\ UvCycleStopped =>
            \A k \in 1..Len(uv_seqs) :
                Len(uv_seqs'[k].trace) <= Len(uv_seqs[k].trace)]_vars

\* The first invocation of a schedule follows no interval wait, every later
\* one follows a whole interval wait.
FiresAtZeroThenEachInterval(r) ==
    /\ r.invocation = "first" => ~r.preceded
    /\ r.invocation = "later" => r.preceded

\* C5: in every variant a message timer sends first at its start, without
\* waiting an interval, and then once per interval.
C5_FirstSendAtStart ==
    /\ \A id \in TasksOf("timer", "s1") : FiresAtZeroThenEachInterval(tasks[id])
    /\ \A id \in ThreadsOf("timer") : FiresAtZeroThenEachInterval(threads[id])
    /\ \A id \in HandlesOf("timer") : FiresAtZeroThenEachInterval(uv_timers[id])

TimerState(g) ==
    [timer_active |-> g.timer_active, timer_thread |-> g.timer_thread,
     auto_cycle_active |-> g.auto_cycle_active, auto_cycle_thread |-> g.auto_cycle_thread]

UvTimerState(st) ==
    [timer_handle |-> st.uv.timer_handle, auto_cycle_handle |-> st.uv.auto_cycle_handle,
     timers |-> st.timers]

\* C7: in every variant, a stop with nothing active leaves the timer state
\* (registry, flags, handles) and every task as they are, issuing no command,
\* and a stop after a stop leaves what the one stop left.
C7_StopIdempotent ==
    /\ \A kind \in Kinds, s \in Sessions :
          LET once == stop_tool(kind, s, mcp_state)
          IN  /\ stop_tool(kind, s, once) = once
              /\ registry(kind, mcp_state)[s] = NoTask => once = mcp_state
    /\ LET once == TmuxMessenger_stop_timer_effect(gui)
       IN  /\ TmuxMessenger_stop_timer_effect(once) = once
           /\ ~gui.timer_active => TimerState(once) = TimerState(gui)
    /\ LET once == TmuxMessenger_stop_auto_cycle_effect(gui)
       IN  /\ TmuxMessenger_stop_auto_cycle_effect(once) = once
           /\ ~gui.auto_cycle_active => TimerState(once) = TimerState(gui)
    /\ LET once == TmuxMessengerUV_stop_timer_effect(uv_state)
       IN  /\ TmuxMessengerUV_stop_timer_effect(once) = once
           /\ uv.timer_handle = 0 => UvTimerState(once) = UvTimerState(uv_state)
    /\ LET once == TmuxMessengerUV_stop_auto_cycle_effect(uv_state)
       IN  /\ TmuxMessengerUV_stop_auto_cycle_effect(once) = once
           /\ uv.auto_cycle_handle = 0 => UvTimerState(once) = UvTimerState(uv_state)

\* C7 happens: a stop tool has cancelled a session's task and left the
\* session with no entry, so that the next stop finds nothing to stop.
C7_NothingActiveAfterStop ==
    /\ InFlight = 0
    /\ \A kind \in Kinds : registry(kind, mcp_state)["s1"] = NoTask
    /\ \E id \in 1..Len(tasks) : tasks[id].must_cancel /\ ~Finished(tasks[id])

\* C8: in the MCP server and the threaded GUI, once a command of an
\* exit/continue sequence has exited non-zero, the invocation issues no
\* further command.
C8_FailureAbortsInvocation ==
    [][/\ \A id \in TasksOf("cycle", "s1") :
            (tasks[id].failed /\ tasks'[id].failed) => tasks'[id].trace = tasks[id].trace
       /\ \A id \in ThreadsOf("cycle") :
            (threads[id].failed /\ threads'[id].failed) =>
                threads'[id].trace = threads[id].trace]_vars

\* C9: in the MCP server and the threaded GUI no schedule is ended by the
\* failure of one of its invocations: a schedule that is over was stopped.
C9_ScheduleSurvivesFailure ==
    /\ \A id \in 1..Len(tasks) : ~tasks[id].crashed
    /\ \A id \in 1..Len(threads) : ~threads[id].crashed
    /\ \A kind \in Kinds :
          (InFlight = 0 /\ registry(kind, mcp_state)["s1"] # NoTask) =>
              ~Finished(tasks[registry(kind, mcp_state)["s1"]])

\* C10: in all three programs an invocation of the exit/continue sequence
\* that ran to its end with every command succeeding has issued exactly C-c
\* five times, 'mullvad reconnect', Enter, 'claudex -c', Enter, and while it
\* stays ended it issues nothing more.
C10_SequenceTrace ==
    /\ \A id \in TasksOf("cycle", "s1") :
          (tasks[id].complete /\ ~tasks[id].failed) => tasks[id].trace = ExitContinueTrace
    /\ \A id \in ThreadsOf("cycle") :
          (threads[id].complete /\ ~threads[id].failed) =>
              threads[id].trace = ExitContinueTrace
    /\ \A k \in 1..Len(uv_seqs) :
          /\ uv_seqs[k].complete => uv_seqs[k].trace = ExitContinueTrace
          /\ Len(uv_seqs[k].trace) = Len(ExitContinueTrace) => uv_seqs[k].complete

\* C10 happens: an invocation has run to its end with every command
\* succeeding.
C10_SequenceCompleted ==
    \E id \in TasksOf("cycle", "s1") :
        /\ tasks[id].complete
        /\ ~tasks[id].failed
        /\ Len(tasks[id].trace) = Len(ExitContinueTrace)

\* The keys that submit a typed text, and the texts the UV GUI types.
EnterKeys == {"C-m", "Enter"}

Texts == {"msg", "mullvad reconnect", "claudex -c"}

\* C11: in the UV GUI an Enter (C-m) command is started only after the text
\* command it follows has exited, so the two never run at the same time.
C11_EnterAfterTextExited ==
    \A p \in uv_procs, q \in uv_procs :
        ~(/\ p.of = q.of
          /\ q.n = p.n + 1
          /\ p.key \in Texts
          /\ q.key \in EnterKeys)

\* A task that has not executed a step of its loop: its coroutine has not
\* run, or waits for the initial delay to pass.
NotBegun(t) == t.pc \in {"new", "delay"}

\* C12: a task stopped before its first step (right after its start call
\* returned, or during the cycle's initial delay) never issues a command: a
\* task that has not begun and is no longer registered is cancelled, has
\* issued nothing, and its next step ends it with nothing issued.
C12_StopBeforeFirstStep ==
    /\ [](\A id \in 1..Len(tasks) :
            /\ (NotBegun(tasks[id]) \/ tasks[id].pc = "cancelled") =>
                  (tasks[id].trace = <<>> /\ tasks[id].invocation = "none")
            /\ (NotBegun(tasks[id]) /\
                registry(tasks[id].kind, mcp_state)[tasks[id].session] # id) =>
                  tasks[id].must_cancel)
    /\ [][\A id \in 1..Len(tasks) :
            (NotBegun(tasks[id]) /\ tasks[id].must_cancel /\ tasks'[id] # tasks[id]) =>
                (tasks'[id].pc = "cancelled" /\ tasks'[id].trace = <<>>)]_vars

\* C12 happens: stop_auto_cycle has returned while the task waits for its
\* initial delay to pass.
C12_StoppedDuringDelay ==
    \E id \in 1..Len(tasks) :
        /\ tasks[id].pc = "delay"
        /\ tasks[id].must_cancel
        /\ active_cycles[tasks[id].session] = NoTask

\* C13: start_message_timer with interval_seconds <= 0 fails: no task is
\* created or registered for it, and no command is issued for it.
C13_InvalidIntervalRejected ==
    \A id \in 1..Len(tasks) :
        (tasks[id].kind = "timer" /\ tasks[id].interval <= 0) =>
            /\ active_timers[tasks[id].session] # id
            /\ tasks[id].trace = <<>>

\* C14: in both GUIs, start_timer with a timer entry that is not a number or
\* is not positive opens the error dialog and changes nothing else: no
\* worker thread or timer handle is started for that interval, the flags and
\* buttons stay as they were, and no tmux command is issued.
C14_InvalidEntryChangesNothing ==
    /\ [](/\ \A id \in 1..Len(threads) :
                threads[id].kind = "timer" => threads[id].interval > 0
          /\ \A id \in 1..Len(uv_timers) :
                uv_timers[id].kind = "timer" => uv_timers[id].interval > 0
          /\ gui.main = "showerror" => ~interval_accepted(gui.timer_entry)
          /\ uv.main = "showerror" => ~interval_accepted(uv.timer_entry))
    /\ [][/\ (gui.main = "idle" /\ gui'.main = "showerror") =>
                (gui' = [gui EXCEPT !.main = "showerror"] /\ threads' = threads)
          /\ (uv.main = "idle" /\ uv'.main = "showerror") =>
                (/\ uv' = [uv EXCEPT !.main = "showerror"]
                 /\ UNCHANGED <<uv_timers, uv_seqs, uv_procs>>)
          /\ (~interval_accepted(gui.timer_entry) /\ gui'.timer_entry = gui.timer_entry) =>
                (/\ gui'.timer_active => gui.timer_active
                 /\ gui'.timer_thread = gui.timer_thread
                 /\ gui'.stop_timer_btn = "normal" => gui.stop_timer_btn = "normal")
          /\ (~interval_accepted(uv.timer_entry) /\ uv'.timer_entry = uv.timer_entry) =>
                (/\ uv'.timer_handle \in {0, uv.timer_handle}
                 /\ uv'.stop_timer_btn = "normal" => uv.stop_timer_btn = "normal")]_vars

C14_ErrorDialogShown ==
    /\ gui.main = "showerror"
    /\ gui.timer_entry \in {"0", "-1"}
    /\ Len(threads) > 0

\* The worker threads of a kind whose loop has not returned.
Workers(kind) == {id \in 1..Len(threads) : threads[id].kind = kind /\ ~Finished(threads[id])}

\* C15: in the threaded GUI at most one timer worker loop and at most one
\* cycle worker loop is running at any time, also after a join that timed
\* out on a worker inside a send, a dialog or the sequence.
C15_OneWorkerPerKind ==
    /\ Cardinality(Workers("timer")) <= 1
    /\ Cardinality(Workers("cycle")) <= 1

\* The periodic timers of a kind that were started and never stopped.
Armed(kind) == {id \in 1..Len(uv_timers) : uv_timers[id].kind = kind /\ ~Finished(uv_timers[id])}

\* C16: in the UV GUI every periodic timer ever started is stopped by
\* stop_timer (stop_auto_cycle for the cycle): while no timer handle is
\* held no timer callback can fire, and a held handle is the only timer of
\* its kind that can.
C16_StoppedTimersNeverFire ==
    /\ Armed("timer") \subseteq {uv.timer_handle}
    /\ Armed("cycle") \subseteq {uv.auto_cycle_handle}

\* C17 for the threaded GUI.
GuiExclusive ==
    /\ ~(gui.timer_active /\ gui.auto_cycle_active)
    /\ (gui.timer_active \/ gui.auto_cycle_active) => gui.send_once_btn = "disabled"

\* C17 for the UV GUI.
UvExclusive ==
    /\ ~(uv.timer_handle # 0 /\ uv.auto_cycle_handle # 0)
    /\ (uv.timer_handle # 0 \/ uv.auto_cycle_handle # 0) => uv.send_once_btn = "disabled"

\* C17: in both GUIs the timer and the auto cycle are never active at the
\* same time, and Send Once is disabled while either is active.
C17_TimerAndCycleExclusive == GuiExclusive /\ UvExclusive

\* C18: send_message_to_session issues the text first and Enter only after
\* the text command has completed with exit status 0; when the text command
\* exits non-zero the tool returns success False with tmux's error text and
\* Enter is never issued.
C18_EnterOnlyAfterTextSucceeded ==
    request.tool = "send_message_to_session" =>
        /\ request.trace \in {<<>>, <<"msg">>, <<"msg", "Enter">>}
        /\ Len(request.trace) = 2 => (Len(request.codes) >= 1 /\ request.codes[1] = 0)
        /\ (Len(request.codes) >= 1 /\ request.codes[1] # 0) =>
              /\ request.pc = "returned"
              /\ request.result.success = FALSE
              /\ request.result.error = "stderr"
              /\ request.trace = <<"msg">>

C18_TextFailed ==
    /\ request.tool = "send_message_to_session"
    /\ request.pc = "returned"
    /\ request.codes = <<1>>

\* C19: send_ctrl_c issues exactly `count` C-c commands when every command
\* succeeds (none when count <= 0) and returns success True; when command i
\* (from 0) exits non-zero, no further command is issued and it returns
\* success False with sent = i.
C19_ExactlyCountCtrlC ==
    request.tool = "send_ctrl_c" =>
        /\ \A n \in 1..Len(request.trace) : request.trace[n] = "C-c"
        /\ Len(request.trace) <= IF request.count > 0 THEN request.count ELSE 0
        /\ \A n \in 1..Len(request.codes) :
              request.codes[n] # 0 =>
                  /\ n = Len(request.trace)
                  /\ request.pc = "returned"
                  /\ request.result = [success |-> FALSE, error |-> "stderr", sent |-> n - 1,
                                                    channel |-> ""]
        /\ (request.pc = "returned" /\ request.result.success) =>
              /\ Len(request.trace) = (IF request.count > 0 THEN request.count ELSE 0)
              /\ \A n \in 1..Len(request.codes) : request.codes[n] = 0
        /\ (request.pc = "returned" /\ request.result.error = "") => request.result.success

C19_SecondCtrlCFailed ==
    /\ request.tool = "send_ctrl_c"
    /\ request.count = MaxCount
    /\ request.pc = "returned"
    /\ request.codes = <<0, 1>>

\* The send-keys commands of a launch_agent call, and how many commands of
\* the channel change came before them.
SentKeys(r) == SelectSeq(r.trace, LAMBDA k : k \notin {"list-sessions", "rename-session"})

ChannelCommands(r) == Len(r.trace) - Len(SentKeys(r))

\* The names launch_agent accepts among Agents, with the command of each.
Supported == {"gemini", "claude", "codex", "swarm", "Swarm"}

CommandOf(agent) == IF agent \in {"swarm", "Swarm"} THEN "swarmcode" ELSE agent

\* C20: launch_agent, in both servers, rejects an agent name outside gemini,
\* claude, codex, swarm (in any case) with success False and no tmux
\* command; for a supported name it sends the mapped command and then Enter,
\* and when the command send exits non-zero it returns success False
\* without sending Enter.
C20_LaunchAgent ==
    request.tool = "launch_agent" =>
        /\ request.agent \notin Supported =>
              /\ request.trace = <<>>
              /\ request.pc \in {"begin", "returned"}
              /\ request.pc = "returned" =>
                    (~request.result.success /\ request.result.error = "unknown agent")
        /\ request.agent \in Supported =>
              /\ request.result.error # "unknown agent"
              /\ SentKeys(request) \in {<<>>, <<CommandOf(request.agent)>>,
                                        <<CommandOf(request.agent), "Enter">>}
              /\ Len(SentKeys(request)) = 2 =>
                    /\ Len(request.codes) > ChannelCommands(request)
                    /\ request.codes[ChannelCommands(request) + 1] = 0
              /\ (/\ Len(SentKeys(request)) >= 1
                  /\ Len(request.codes) > ChannelCommands(request)
                  /\ request.codes[ChannelCommands(request) + 1] # 0) =>
                    /\ request.pc = "returned"
                    /\ ~request.result.success
                    /\ Len(SentKeys(request)) = 1
              /\ (request.pc = "returned" /\ request.result.success) =>
                    SentKeys(request) = <<CommandOf(request.agent), "Enter">>

C20_CommandFailedAfterChannelChange ==
    /\ program = "channels"
    /\ request.tool = "launch_agent"
    /\ request.agent = "Swarm"
    /\ request.pc = "returned"
    /\ request.trace = <<"list-sessions", "rename-session", "swarmcode">>
    /\ request.codes = <<0, 0, 1>>

\* The send-keys commands a broadcast issued to one session, in order.
SendsTo(session_name) ==
    SelectSeq(broadcast.sends, LAMBDA c : c.target = session_name)

KeysTo(session_name) ==
    [n \in 1..Len(SendsTo(session_name)) |-> SendsTo(session_name)[n].key]

\* The sessions of the tmux server.
Listed == {tmux_sessions[n] : n \in 1..Len(tmux_sessions)}

\* C21: broadcast_to_channel(X, m) with X among A..E issues send-keys only to
\* sessions whose detected channel is X, and once list-sessions succeeded
\* and no send failed, every such session has got m and then Enter.
C21_AllAndOnlyChannel ==
    upper(broadcast.channel) \in {"A", "B", "C", "D", "E"} =>
        /\ \A session_name \in Listed :
              /\ get_channel_from_session(session_name) # upper(broadcast.channel) =>
                    SendsTo(session_name) = <<>>
              /\ KeysTo(session_name) \in {<<>>, <<"msg">>, <<"msg", "Enter">>}
        /\ \A n \in 1..Len(broadcast.sends) : broadcast.sends[n].target \in Listed
        /\ (broadcast.pc = "returned" /\ broadcast.listed /\ broadcast.failed_sends = 0) =>
              \A session_name \in Listed :
                  get_channel_from_session(session_name) = upper(broadcast.channel) =>
                      KeysTo(session_name) = <<"msg", "Enter">>

C21_ChannelBReached ==
    /\ broadcast.channel = "b"
    /\ broadcast.pc = "returned"
    /\ Listed = {SessionNames[3], SessionNames[5]}
    /\ broadcast.sends = <<[target |-> SessionNames[3], key |-> "msg"],
                           [target |-> SessionNames[3], key |-> "Enter"]>>
    /\ broadcast.success

\* C22: broadcast_to_channel, whatever channel it is given, issues no
\* send-keys command to a session whose channel is ISOLATED.
C22_IsolatedNeverReceives ==
    \A session_name \in Listed :
        get_channel_from_session(session_name) = "ISOLATED" => SendsTo(session_name) = <<>>

\* C23: broadcast_to_channel('BROADCAST', m), once every list-sessions
\* succeeded and no send failed, has sent m and Enter exactly once to every
\* session of channel A, B, C, D, E or BROADCAST.
C23_BroadcastReachesAll ==
    (/\ upper(broadcast.channel) = "BROADCAST"
     /\ broadcast.pc = "returned" /\ broadcast.listed /\ broadcast.failed_sends = 0) =>
        \A session_name \in Listed :
            get_channel_from_session(session_name) \in {"A", "B", "C", "D", "E", "BROADCAST"} =>
                KeysTo(session_name) = <<"msg", "Enter">>

\* C24: in the channels server, when launch_agent returns success True with
\* a 'channel' field, the session the command was launched in carries that
\* channel's marker; a failed channel change is not claimed in the response.
C24_ChannelClaimedOnlyIfSet ==
    (/\ request.tool = "launch_agent" /\ request.pc = "returned"
     /\ request.result.success /\ request.result.channel # "") =>
        request.session.channel = upper(request.result.channel)

\* The positions of an output where a non-empty line begins, the n-th of
\* them, and the position where the line begun at k ends.
LineStarts(text) ==
    {k \in 1..Len(text) : text[k] # "\n" /\ (k = 1 \/ text[k - 1] = "\n")}

NthStart(text, n) ==
    CHOOSE k \in LineStarts(text) : Cardinality({j \in LineStarts(text) : j < k}) = n - 1

LineEnd(text, k) ==
    CHOOSE e \in k..Len(text) :
        /\ \A j \in k..e : text[j] # "\n"
        /\ e = Len(text) \/ text[e + 1] = "\n"

\* An entry has the name and info of its line: the text before the first
\* ':' and the remainder, with its surrounding whitespace removed or not.
EntryOfLine(entry, stripped) ==
    \/ /\ \A k \in 1..Len(entry.full_line) : entry.full_line[k] # ":"
       /\ entry.name = entry.full_line
       /\ entry.info = <<>>
    \/ \E k \in 1..Len(entry.full_line) :
          /\ entry.full_line[k] = ":"
          /\ \A j \in 1..(k - 1) : entry.full_line[j] # ":"
          /\ entry.name = SubSeq(entry.full_line, 1, k - 1)
          /\ entry.info = IF stripped
                          THEN strip(SubSeq(entry.full_line, k + 1, Len(entry.full_line)))
                          ELSE SubSeq(entry.full_line, k + 1, Len(entry.full_line))

\* What a returned listing is, given whether info is the stripped remainder.
ListingReturned(stripped) ==
    (listing.tool # "none" /\ listing.pc = "returned" /\ listing.error # "exception") =>
        /\ listing.returncode = 0 =>
              /\ Len(listing.sessions) = Cardinality(LineStarts(strip(listing.stdout)))
              /\ \A n \in 1..Len(listing.sessions) :
                    /\ listing.sessions[n].full_line =
                          SubSeq(strip(listing.stdout),
                                 NthStart(strip(listing.stdout), n),
                                 LineEnd(strip(listing.stdout), NthStart(strip(listing.stdout), n)))
                    /\ EntryOfLine(listing.sessions[n], stripped)
        /\ listing.returncode # 0 =>
              /\ listing.sessions = <<>>
              /\ listing.tool = "list_sessions_resource" => listing.error # ""

\* C25, as stated: list_tmux_sessions returns one entry per non-empty line of
\* the output, in output order, whose name is the text before the first ':'
\* and whose info is the remainder; on a non-zero exit it returns an empty
\* list and the resource an error object with an empty sessions list.
C25_InfoIsRemainder == ListingReturned(FALSE)

\* C25, amended: the same, with info the remainder without its leading and
\* trailing whitespace.
C25_InfoIsStrippedRemainder == ListingReturned(TRUE)

C25_TwoLinesListed ==
    /\ listing.tool = "list_tmux_sessions"
    /\ listing.pc = "returned"
    /\ listing.stdout = <<"a", ":", "\n", "a">>
    /\ Len(listing.sessions) = 2


\* The registry of the given kind after the step.
registry_after(kind) == IF kind = "timer" THEN active_timers' ELSE active_cycles'

\* A stop tool has returned to the host in this step.
StopReturned == stop_result' # stop_result /\ stop_result'.op # "none"

\* C26: stop_message_timer and stop_auto_cycle return success True exactly when
\* the session had an entry in their registry when they were called; without
\* an entry they change no registry and cancel no task, with one they request
\* the cancellation of the registered task; after the call the session has no
\* entry in that registry.
C26_StopSucceedsIffEntry ==
    [][StopReturned =>
         LET kind == KindOf(stop_result'.op)
             s == stop_result'.session
             old == registry(kind, mcp_state)[s]
         IN /\ stop_result'.success = (old # NoTask)
            /\ registry_after(kind)[s] = NoTask
            /\ old = NoTask => UNCHANGED <<active_timers, active_cycles, tasks>>
            /\ old # NoTask =>
                    /\ tasks' = [tasks EXCEPT ![old] = cancel(@)]
                    /\ registry_after(kind) =
                           [registry(kind, mcp_state) EXCEPT ![s] = NoTask]]_vars

\* stop_auto_cycle has stopped a registered cycle of s1 and removed its entry.
C26_CycleStopped ==
    /\ stop_result = [op |-> "stop_auto_cycle", session |-> "s1", success |-> TRUE]
    /\ active_cycles["s1"] = NoTask
    /\ \E id \in 1..Len(tasks) :
           tasks[id].kind = "cycle" /\ (tasks[id].must_cancel \/ Finished(tasks[id]))


\* C27: between tool calls, every task stored in active_timers or active_cycles
\* is still running: a loop that has ended has no registry entry.
C27_RegisteredTasksRunning ==
    calls = EmptyBag =>
        \A kind \in Kinds, s \in Sessions :
            registry(kind, mcp_state)[s] # NoTask =>
                ~Finished(tasks[registry(kind, mcp_state)[s]])


\* A timer or cycle tool has acted in this step.
ToolStep ==
    calls' # calls \/ active_timers' # active_timers \/ active_cycles' # active_cycles

\* The step is one of a tool of the given kind called for session s: the call
\* that enters or leaves its await, or the entry that changes.
ToolTarget(kind, s) ==
    \/ \E c \in BagToSet(calls) \cup BagToSet(calls') :
          /\ KindOf(c.op) = kind /\ c.session = s
          /\ \/ calls' = calls (+) SetToBag({c})
             \/ calls = calls' (+) SetToBag({c})
    \/ calls' = calls /\ registry_after(kind)[s] # registry(kind, mcp_state)[s]

\* Every entry but (kind, s) and every task but those of (kind, s) are as before.
Frame(kind, s) ==
    /\ \A k2 \in Kinds, s2 \in Sessions :
          (k2 # kind \/ s2 # s) => registry_after(k2)[s2] = registry(k2, mcp_state)[s2]
    /\ \A id \in 1..Len(tasks) :
          (tasks[id].kind # kind \/ tasks[id].session # s) => tasks'[id] = tasks[id]

\* C28: a start or stop tool called for session s changes only the entry of s
\* in its own registry and only the tasks of its kind for s: the other
\* registry, the entries of every other session and their tasks are unchanged.
C28_OtherSessionsUnchanged ==
    [][ToolStep => \E kind \in Kinds, s \in Sessions : ToolTarget(kind, s) /\ Frame(kind, s)]_vars

\* The timer of s1 was stopped while s2 had a timer, which is still registered
\* and not cancelled.
C28_OtherTimerKept ==
    /\ active_timers["s1"] = NoTask
    /\ active_timers["s2"] # NoTask
    /\ ~tasks[active_timers["s2"]].must_cancel
    /\ ~Finished(tasks[active_timers["s2"]])
    /\ \E id \in 1..Len(tasks) :
          /\ tasks[id].kind = "timer" /\ tasks[id].session = "s1"
          /\ tasks[id].must_cancel \/ tasks[id].pc = "cancelled"


\* C29: send_message_to_session returns success True only if the command that
\* types the message and the command that sends Enter both exited with
\* status 0.
C29_SuccessOnlyIfBothExitedZero ==
    (/\ request.tool = "send_message_to_session"
     /\ request.pc = "returned"
     /\ request.result.success) =>
        /\ Len(request.codes) = 2
        /\ \A n \in 1..Len(request.codes) : request.codes[n] = 0

====
